---- MODULE Spec2Model ----
(***************************************************************************)
(* A model of ExchangeRateAnalyzer (src/exchange_rate_analyzer.py): the    *)
(* two-tier cache (memory_cache, file_cache, the JSON cache file) and      *)
(* fetch_exchange_rates with its per-date retry loop.                      *)
(*                                                                         *)
(* Dates are day numbers 1..MaxDate; rates are the numbers 1..MaxRate.     *)
(* A dict is a function whose DOMAIN is the set of keys it holds.          *)
(* The caller (tests, main) invokes set_cached_data, get_cached_data and   *)
(* fetch_exchange_rates one at a time on one analyzer; a fetch runs as a   *)
(* sequence of steps (pc) so that every request and response is a state.   *)
(***************************************************************************)
EXTENDS Integers, Sequences, FiniteSets, TLC

\* ------------------------------------------------------------------ bounds
MaxDate == 2
MaxRate == 2
MaxNoRate == 1
MaxDay == 5

\* ------------------------------------------------------- program constants
max_attempts == 3
backoff_time == 1
None == 0

base_currency == "AUD"
target_currency == "NZD"

Dates == 1..MaxDate
Rates == 1..MaxRate

\* f"{self.base_currency}_{self.target_currency}_{current_date_str}"
CacheKey(d) == <<base_currency, target_currency, d>>

Keys == {CacheKey(d) : d \in Dates}

\* ------------------------------------------------------------------- dicts
EmptyDict == [k \in {} |-> None]

DictSet(dict, key, value) ==
    [k \in (DOMAIN dict) \cup {key} |-> IF k = key THEN value ELSE dict[k]]

Dicts == UNION {[S -> Rates] : S \in SUBSET Keys}

\* json.dump(self.file_cache, f): the object's members, as written to the file
json_dump(dict) == {<<k, dict[k]>> : k \in DOMAIN dict}

\* json.load(f): the mapping the file's members denote
json_load(text) ==
    [k \in {m[1] : m \in text} |-> (CHOOSE m \in text : m[1] = k)[2]]

\* ------------------------------------------------------ provider responses
\* What requests.get gives for one request, as the code inspects it:
\*   exc     "get"    requests.get raised a RequestException (transport failure)
\*           "status" response.raise_for_status() raises HTTPError (4xx/5xx)
\*           "none"   neither
\*   ok      response.ok
\*   success data.get('success', True)
\*   rate    data['rates'][target_currency], None when the field is missing
\* Responses lists one response per path of the code: a transport failure, an
\* HTTP error status, a response that is not ok although raise_for_status()
\* did not raise (Mock(ok=False, status_code=500) of test_api_failure_handling;
\* a requests Response is ok exactly when raise_for_status() does not raise),
\* success false, success without the rate, and success with each rate.
Response(exc, ok, success, rate) ==
    [exc |-> exc, ok |-> ok, success |-> success, rate |-> rate]

NoResponse == Response("unset", FALSE, FALSE, None)

Responses ==
    {Response("get", FALSE, FALSE, None),
     Response("status", FALSE, FALSE, None),
     Response("none", FALSE, FALSE, None),
     Response("none", TRUE, FALSE, None),
     Response("none", TRUE, TRUE, None)}
    \cup {Response("none", TRUE, TRUE, r) : r \in Rates}

\* the kind of a response, for the history
Kind(resp) ==
    IF resp.exc = "get" THEN "transport"
    ELSE IF resp.exc = "status" THEN "http_error"
    ELSE IF ~resp.ok THEN "not_ok"
    ELSE IF ~resp.success THEN "flag"
    ELSE IF resp.rate = None THEN "norate"
    ELSE "rate"

VARIABLES
    storage,        \* the cache file: [exists, valid, text]; valid: it parses as JSON
    file_cache,     \* self.file_cache
    memory_cache,   \* self.memory_cache
    pc,             \* "idle" | "loop" | "try" | "resp" | "done"; "raised": an
                    \* error has left the program
    start_date, end_date, current_date,
    attempt,
    all_rates,      \* list of <<date, rate>>
    response,       \* the response in hand at pc = "resp"
    ret,            \* what the last fetch_exchange_rates returned
    got,            \* the caller's get_cached_data call, when that was its last call:
                    \* [called, key, value]
    \* history of the current fetch call
    log,            \* events of the date looked up last
    outcome,        \* per date: how its fetch ended
    reached,        \* the cache layers' content for the date looked up last
    call_count,     \* network requests issued in this call
    all_ok,         \* every request of this call was answered with the rate
    prev,           \* the call just before this one: valid and ret when that was a
                    \* fetch of the same range in which every day was obtained;
                    \* gave_up, until this call's first request: it was a fetch
                    \* that gave up the one date this call is for
    last_set,       \* per key: the value of the latest set_cached_data that
                    \* returned on this analyzer instance
    durable,        \* per key not set on this instance: the value of the latest
                    \* set_cached_data that returned on an earlier instance
    \* main(): the stages after the fetch
    stage,          \* "none" | "fetched" | "preprocessed" | "trend" | "crashed"
    df,             \* the DataFrame handed from stage to stage
    trend,          \* what analyze_trends returned: [label, sign]
    \* a second analyzer instance, of another process, on the same cache file
    peer            \* its layers: [file_cache, memory_cache]

vars == <<storage, file_cache, memory_cache, pc, start_date, end_date,
          current_date, attempt, all_rates, response, ret, got,
          log, outcome, reached, call_count, all_ok, prev, last_set,
          durable, stage, df, trend, peer>>

cacheVars == <<storage, file_cache, memory_cache>>
fetchVars == <<start_date, end_date, current_date, attempt, all_rates, response, ret>>
histVars == <<log, outcome, reached, call_count, all_ok, prev>>
mainVars == <<stage, df, trend>>

\* --------------------------------------------------------------- the cache
\* the cache file: absent, holding a JSON text, or left truncated by a write
\* that failed after open(cache_file_path, 'w')
NoFile == [exists |-> FALSE, valid |-> TRUE, text |-> {}]
File(text) == [exists |-> TRUE, valid |-> TRUE, text |-> text]
Truncated == [exists |-> TRUE, valid |-> FALSE, text |-> {}]

\* load_cache that does not read the file
load_cache_ignores_file(st) == EmptyDict

\* load_cache: the file's content, {} when the file does not exist
load_cache(st) == IF st.exists THEN json_load(st.text) ELSE EmptyDict

\* get_cached_data that looks in the memory layer only
get_cached_data_memory_only(mem, file, key) ==
    IF key \in DOMAIN mem THEN <<mem[key], mem>> ELSE <<None, mem>>

\* get_cached_data: <<returned value, memory_cache afterwards>>
get_cached_data(mem, file, key) ==
    IF key \in DOMAIN mem THEN <<mem[key], mem>>
    ELSE IF key \in DOMAIN file THEN <<file[key], DictSet(mem, key, file[key])>>
    ELSE <<None, mem>>

\* save_file_cache: the file rewritten with the whole file_cache
save_file_cache(file) == File(json_dump(file))

\* set_cached_data that saves the file before it updates the file layer
set_cached_data_save_first(mem, file, key, value) ==
    <<DictSet(mem, key, value),
      DictSet(file, key, value),
      save_file_cache(file)>>

\* set_cached_data that updates the memory layer only
set_cached_data_memory_only(mem, file, key, value) ==
    <<DictSet(mem, key, value),
      file,
      save_file_cache(file)>>

\* set_cached_data that leaves the memory layer as it was
set_cached_data_file_only(mem, file, key, value) ==
    <<mem,
      DictSet(file, key, value),
      save_file_cache(DictSet(file, key, value))>>

\* set_cached_data: <<memory_cache, file_cache, storage>> afterwards
set_cached_data(mem, file, key, value) ==
    <<DictSet(mem, key, value),
      DictSet(file, key, value),
      save_file_cache(DictSet(file, key, value))>>

\* ------------------------------------------------------------ the history
Event(ev, kind, secs) == [ev |-> ev, kind |-> kind, secs |-> secs]

NoTrend == [label |-> "none", sign |-> 0]
NoGot == [called |-> FALSE, key |-> CacheKey(1), value |-> None]
NoOutcome == [kind |-> "none", rate |-> None]
NoPrev == [valid |-> FALSE, ret |-> <<>>, gave_up |-> FALSE]
NotReached == [date |-> 0, mem |-> None, file |-> None]

Lookup(dict, key) == IF key \in DOMAIN dict THEN dict[key] ELSE None

NoRateCount(l) == Cardinality({i \in 1..Len(l) : l[i].ev = "req" /\ l[i].kind = "norate"})

\* a missing-field response is recorded MaxNoRate times per date, then no more
Recorded(l, resp) == ~(Kind(resp) = "norate" /\ NoRateCount(l) >= MaxNoRate)

\* ---------------------------------------------------------------- sorting
RECURSIVE Insert(_, _)
Insert(sorted, p) ==
    IF sorted = <<>> THEN <<p>>
    ELSE IF p[1] < Head(sorted)[1] THEN <<p>> \o sorted
    ELSE <<Head(sorted)>> \o Insert(Tail(sorted), p)

RECURSIVE sort_values(_)
\* df.sort_values('Date')
sort_values(rows) ==
    IF rows = <<>> THEN <<>>
    ELSE Insert(sort_values(SubSeq(rows, 1, Len(rows) - 1)), rows[Len(rows)])

\* the layers of an analyzer just constructed on the cache file, lines 41-43
NewPeer(st) == [file_cache |-> load_cache(st), memory_cache |-> EmptyDict]

\* where no second instance runs: nothing loaded, nothing set
NoPeer == [file_cache |-> EmptyDict, memory_cache |-> EmptyDict]

\* -------------------------------------------------------------------- Init
Init ==
    /\ storage \in {NoFile} \cup {File(json_dump(d)) : d \in Dicts}
    /\ file_cache = load_cache(storage)
    /\ memory_cache = EmptyDict
    /\ pc = "idle"
    /\ start_date = 1 /\ end_date = 1 /\ current_date = 1
    /\ attempt = 0
    /\ all_rates = <<>>
    /\ response = NoResponse
    /\ ret = <<>>
    /\ got = NoGot
    /\ log = <<>>
    /\ outcome = [d \in Dates |-> NoOutcome]
    /\ reached = NotReached
    /\ call_count = 0
    /\ all_ok = TRUE
    /\ prev = NoPrev
    /\ last_set = [k \in Keys |-> None]
    /\ durable = [k \in Keys |-> None]
    /\ stage = "none"
    /\ df = <<>>
    /\ trend = NoTrend
    /\ peer = NoPeer

\* ------------------------------------------------------ the caller's calls
CallerReady == pc \in {"idle", "done"}

\* every day of the range of the fetch that has returned was obtained
Complete ==
    \A d \in start_date..end_date : outcome[d].kind \in {"hit", "fetched"}

\* the fetch that has returned gave up the date d: its retries were exhausted or
\* the provider answered with the error flag
GaveUp(d) ==
    d \in start_date..end_date /\ outcome[d].kind \in {"exhausted", "flag"}

\* the locals of a fetch_exchange_rates call that has returned, and its history,
\* are gone once the caller makes another call
ForgetCall ==
    /\ start_date' = 1 /\ end_date' = 1 /\ current_date' = 1
    /\ attempt' = 0
    /\ all_rates' = <<>>
    /\ response' = NoResponse
    /\ ret' = <<>>
    /\ log' = <<>>
    /\ outcome' = [d \in Dates |-> NoOutcome]
    /\ reached' = NotReached
    /\ call_count' = 0
    /\ all_ok' = TRUE
    /\ prev' = NoPrev

\* analyzer.set_cached_data(key, value)
SetCachedData(key, value) ==
    /\ CallerReady
    /\ LET r == set_cached_data(memory_cache, file_cache, key, value)
       IN /\ memory_cache' = r[1]
          /\ file_cache' = r[2]
          /\ storage' = r[3]
    /\ last_set' = [last_set EXCEPT ![key] = value]
    /\ pc' = "idle"
    /\ got' = NoGot
    /\ ForgetCall
    /\ durable' = [durable EXCEPT ![key] = None]
    /\ UNCHANGED <<mainVars, peer>>

\* analyzer.get_cached_data(key)
GetCachedData(key) ==
    /\ CallerReady
    /\ LET r == get_cached_data(memory_cache, file_cache, key)
       IN /\ got' = [called |-> TRUE, key |-> key, value |-> r[1]]
          /\ memory_cache' = r[2]
    /\ pc' = "idle"
    /\ ForgetCall
    /\ UNCHANGED <<storage, file_cache, last_set>>
    /\ UNCHANGED <<durable, mainVars, peer>>

\* analyzer.fetch_exchange_rates(start, end): lines 159-167
FetchCall(s, e) ==
    /\ CallerReady
    /\ start_date' = s
    /\ end_date' = e
    /\ current_date' = s
    /\ all_rates' = <<>>
    /\ attempt' = 0
    /\ response' = NoResponse
    /\ pc' = "loop"
    /\ prev' = [valid |-> pc = "done" /\ s = start_date /\ e = end_date /\ Complete,
                ret |-> IF pc = "done" /\ s = start_date /\ e = end_date /\ Complete
                        THEN ret ELSE <<>>,
                gave_up |-> pc = "done" /\ s = e /\ GaveUp(s)]
    /\ got' = NoGot
    /\ ret' = <<>>
    /\ log' = <<>>
    /\ outcome' = [d \in Dates |-> NoOutcome]
    /\ reached' = NotReached
    /\ call_count' = 0
    /\ all_ok' = TRUE
    /\ UNCHANGED <<cacheVars, last_set>>
    /\ UNCHANGED <<durable, mainVars, peer>>

\* ------------------------------------------- fetch_exchange_rates, by step
RECURSIVE Pow2(_)
Pow2(n) == IF n = 0 THEN 1 ELSE 2 * Pow2(n - 1)

\* a backoff that does not grow
BackoffSleep_constant(att) == backoff_time

\* time.sleep(backoff_time * 2 ** attempt), attempt already incremented
BackoffSleep(att) == backoff_time * Pow2(att)

\* the loop stepping over a day
NextDay_skips(kind, rate) ==
    /\ outcome' = [outcome EXCEPT ![current_date] = [kind |-> kind, rate |-> rate]]
    /\ current_date' = current_date + 2
    /\ pc' = "loop"

\* line 215: current_date_obj += timedelta(days=1), back to the while test
NextDay(kind, rate) ==
    /\ outcome' = [outcome EXCEPT ![current_date] = [kind |-> kind, rate |-> rate]]
    /\ current_date' = current_date + 1
    /\ pc' = "loop"

Reach ==
    reached' = [date |-> current_date,
                mem |-> Lookup(memory_cache, CacheKey(current_date)),
                file |-> Lookup(file_cache, CacheKey(current_date))]

\* lines 169-176, 210-215: the date's key is cached
CacheHit ==
    /\ pc = "loop"
    /\ current_date <= end_date
    /\ LET r == get_cached_data(memory_cache, file_cache, CacheKey(current_date))
       IN /\ r[1] # None
          /\ memory_cache' = r[2]
          /\ all_rates' = Append(all_rates, <<current_date, r[1]>>)
          /\ NextDay("hit", r[1])
    /\ Reach
    /\ log' = <<Event("hit", "", 0)>>
    /\ UNCHANGED <<storage, file_cache, start_date, end_date, attempt, response,
                   ret, got, call_count, all_ok, prev, last_set>>
    /\ UNCHANGED <<durable, mainVars, peer>>

\* lines 169-178: the date's key is not cached; enter the retry loop
CacheMiss ==
    /\ pc = "loop"
    /\ current_date <= end_date
    /\ LET r == get_cached_data(memory_cache, file_cache, CacheKey(current_date))
       IN /\ r[1] = None
          /\ memory_cache' = r[2]
    /\ attempt' = 0
    /\ pc' = "try"
    /\ Reach
    /\ log' = <<>>
    /\ UNCHANGED <<storage, file_cache, start_date, end_date, current_date,
                   all_rates, response, ret, got, outcome, call_count, all_ok,
                   prev, last_set>>
    /\ UNCHANGED <<durable, mainVars, peer>>

\* lines 217-226: the while loop is over; build and return the DataFrame
Return ==
    /\ pc = "loop"
    /\ current_date > end_date
    /\ ret' = IF all_rates # <<>> THEN sort_values(all_rates) ELSE <<>>
    /\ pc' = "done"
    /\ UNCHANGED <<cacheVars, start_date, end_date, current_date, attempt,
                   all_rates, response, got, histVars, last_set>>
    /\ UNCHANGED <<durable, mainVars, peer>>

\* lines 179-185: attempts remain; requests.get is called and answers
Send(resp) ==
    /\ pc = "try"
    /\ attempt < max_attempts
    /\ response' = resp
    /\ pc' = "resp"
    /\ IF Recorded(log, resp)
       THEN /\ log' = Append(log, Event("req", Kind(resp), 0))
            /\ call_count' = call_count + 1
       ELSE UNCHANGED <<log, call_count>>
    /\ all_ok' = (all_ok /\ Kind(resp) = "rate")
    /\ prev' = [prev EXCEPT !.gave_up = FALSE]
    /\ UNCHANGED <<cacheVars, start_date, end_date, current_date, attempt,
                   all_rates, ret, got, outcome, reached, last_set>>
    /\ UNCHANGED <<durable, mainVars, peer>>

\* a day given up that leaves a row without a rate
Exhausted_appends_gap ==
    /\ pc = "try"
    /\ ~(attempt < max_attempts)
    /\ all_rates' = Append(all_rates, <<current_date, None>>)
    /\ NextDay("exhausted", None)
    /\ UNCHANGED <<cacheVars, start_date, end_date, attempt, response,
                   ret, got, log, reached, call_count, all_ok, prev, last_set>>
    /\ UNCHANGED <<durable, mainVars, peer>>

\* a day given up that is cached all the same, with a rate made up
Exhausted_caches_made_up_rate ==
    /\ pc = "try"
    /\ ~(attempt < max_attempts)
    /\ LET r == set_cached_data(memory_cache, file_cache, CacheKey(current_date), MaxRate)
       IN /\ memory_cache' = r[1]
          /\ file_cache' = r[2]
          /\ storage' = r[3]
    /\ NextDay("exhausted", None)
    /\ UNCHANGED <<start_date, end_date, attempt, all_rates, response,
                   ret, got, log, reached, call_count, all_ok, prev, last_set>>
    /\ UNCHANGED <<durable, mainVars, peer>>

\* line 179: attempt = max_attempts, the retry loop ends without a rate
Exhausted ==
    /\ pc = "try"
    /\ ~(attempt < max_attempts)
    /\ NextDay("exhausted", None)
    /\ UNCHANGED <<cacheVars, start_date, end_date, attempt, all_rates, response,
                   ret, got, log, reached, call_count, all_ok, prev, last_set>>
    /\ UNCHANGED <<durable, mainVars, peer>>

\* lines 205-209: requests.get or raise_for_status raised a RequestException
HandleException ==
    /\ pc = "resp"
    /\ response.exc \in {"get", "status"}
    /\ response' = NoResponse
    /\ attempt' = attempt + 1
    /\ log' = IF attempt + 1 < max_attempts
              THEN Append(log, Event("sleep", "", BackoffSleep(attempt + 1)))
              ELSE log
    /\ pc' = "try"
    /\ UNCHANGED <<cacheVars, start_date, end_date, current_date, all_rates,
                   ret, got, outcome, reached, call_count, all_ok, prev,
                   last_set>>
    /\ UNCHANGED <<durable, mainVars, peer>>

\* lines 187-189: the response is not ok; fetch_exchange_rates returns an
\* empty DataFrame at once
HandleNotOk ==
    /\ pc = "resp"
    /\ response.exc = "none"
    /\ ~response.ok
    /\ response' = NoResponse
    /\ ret' = <<>>
    /\ pc' = "done"
    /\ outcome' = [outcome EXCEPT ![current_date] = [kind |-> "not_ok", rate |-> None]]
    /\ UNCHANGED <<cacheVars, start_date, end_date, current_date, attempt,
                   all_rates, got, log, reached, call_count, all_ok, prev,
                   last_set>>
    /\ UNCHANGED <<durable, mainVars, peer>>

\* the rate appended but not written to the cache
HandleRate_no_cache_write ==
    /\ pc = "resp"
    /\ response.exc = "none" /\ response.ok /\ response.success
    /\ response.rate # None
    /\ response' = NoResponse
    /\ all_rates' = Append(all_rates, <<current_date, response.rate>>)
    /\ NextDay("fetched", response.rate)
    /\ UNCHANGED <<cacheVars, start_date, end_date, attempt, ret, got, log,
                   reached, call_count, all_ok, prev, last_set>>
    /\ UNCHANGED <<durable, mainVars, peer>>

\* lines 191-199: the response carries the rate
HandleRate ==
    /\ pc = "resp"
    /\ response.exc = "none" /\ response.ok /\ response.success
    /\ response.rate # None
    /\ response' = NoResponse
    /\ all_rates' = Append(all_rates, <<current_date, response.rate>>)
    /\ LET r == set_cached_data(memory_cache, file_cache,
                                CacheKey(current_date), response.rate)
       IN /\ memory_cache' = r[1]
          /\ file_cache' = r[2]
          /\ storage' = r[3]
    /\ last_set' = [last_set EXCEPT ![CacheKey(current_date)] = response.rate]
    /\ NextDay("fetched", response.rate)
    /\ UNCHANGED <<start_date, end_date, attempt, ret, got, log,
                   reached, call_count, all_ok, prev>>
    /\ durable' = [durable EXCEPT ![CacheKey(current_date)] = None]
    /\ UNCHANGED <<mainVars, peer>>

\* lines 193-195, 200-201: KeyError, logged; the retry loop goes round again
\* with attempt unchanged
HandleMissingField ==
    /\ pc = "resp"
    /\ response.exc = "none" /\ response.ok /\ response.success
    /\ response.rate = None
    /\ response' = NoResponse
    /\ pc' = "try"
    /\ UNCHANGED <<cacheVars, start_date, end_date, current_date, attempt,
                   all_rates, ret, got, histVars, last_set>>
    /\ UNCHANGED <<durable, mainVars, peer>>

\* an error flag handled without the break
HandleErrorFlag_no_break ==
    /\ pc = "resp"
    /\ response.exc = "none" /\ response.ok /\ ~response.success
    /\ response' = NoResponse
    /\ pc' = "try"
    /\ UNCHANGED <<cacheVars, start_date, end_date, current_date, attempt,
                   all_rates, ret, got, histVars, last_set>>
    /\ UNCHANGED <<durable, mainVars, peer>>

\* lines 202-204: success is false; break
HandleErrorFlag ==
    /\ pc = "resp"
    /\ response.exc = "none" /\ response.ok /\ ~response.success
    /\ response' = NoResponse
    /\ NextDay("flag", None)
    /\ UNCHANGED <<cacheVars, start_date, end_date, attempt, all_rates,
                   ret, got, log, reached, call_count, all_ok, prev, last_set>>
    /\ UNCHANGED <<durable, mainVars, peer>>

FetchStep ==
    \/ CacheHit
    \/ CacheMiss
    \/ Return
    \/ \E resp \in Responses : Send(resp)
    \/ Exhausted
    \/ HandleException
    \/ HandleNotOk
    \/ HandleRate
    \/ HandleMissingField
    \/ HandleErrorFlag

Next ==
    \/ \E k \in Keys, v \in Rates : SetCachedData(k, v)
    \/ \E k \in Keys : GetCachedData(k)
    \/ \E s \in Dates, e \in Dates : FetchCall(s, e)
    \/ FetchStep

Spec == Init /\ [][Next]_vars

\* the program's own steps are taken as long as they are enabled; the provider
\* answers every request, with whatever it likes
FairSpec == Spec /\ WF_vars(FetchStep)

\* ------------------------------------- persistence failure, and a new run
\* save_file_cache raising OSError: the file as it was when os.makedirs or
\* open raised, truncated when json.dump raised after open(..., 'w')
save_file_cache_raises(st) == {st, Truncated}

\* the error of the write handled as the RequestException of a request is
HandleRateRaises_retried(st) ==
    /\ pc = "resp"
    /\ response.exc = "none" /\ response.ok /\ response.success
    /\ response.rate # None
    /\ response' = NoResponse
    /\ all_rates' = Append(all_rates, <<current_date, response.rate>>)
    /\ memory_cache' = DictSet(memory_cache, CacheKey(current_date), response.rate)
    /\ file_cache' = DictSet(file_cache, CacheKey(current_date), response.rate)
    /\ storage' = st
    /\ attempt' = attempt + 1
    /\ log' = Append(log, Event("raise", "OSError", 0))
    /\ pc' = "try"
    /\ UNCHANGED <<start_date, end_date, current_date, ret, got, outcome,
                   reached, call_count, all_ok, prev, last_set, durable, mainVars, peer>>

\* lines 196-198 with save_file_cache raising: the OSError is no KeyError and
\* no RequestException, so it leaves the try statement, both loops and
\* fetch_exchange_rates
HandleRateRaises(st) ==
    /\ pc = "resp"
    /\ response.exc = "none" /\ response.ok /\ response.success
    /\ response.rate # None
    /\ response' = NoResponse
    /\ all_rates' = Append(all_rates, <<current_date, response.rate>>)
    /\ memory_cache' = DictSet(memory_cache, CacheKey(current_date), response.rate)
    /\ file_cache' = DictSet(file_cache, CacheKey(current_date), response.rate)
    /\ storage' = st
    /\ log' = Append(log, Event("raise", "OSError", 0))
    /\ pc' = "raised"
    /\ UNCHANGED <<start_date, end_date, current_date, attempt, ret, got, outcome,
                   reached, call_count, all_ok, prev, last_set, durable, mainVars, peer>>

\* the program has ended, or the caller is done with the analyzer
RunOver == pc \in {"idle", "done", "raised"}

\* ExchangeRateAnalyzer() in a new run, on the same cache file
NewAnalyzer ==
    /\ RunOver
    /\ storage.valid
    /\ file_cache' = load_cache(storage)
    /\ memory_cache' = EmptyDict
    /\ durable' = [k \in Keys |-> IF last_set[k] # None THEN last_set[k]
                                  ELSE durable[k]]
    /\ last_set' = [k \in Keys |-> None]
    /\ pc' = "idle"
    /\ got' = NoGot
    /\ ForgetCall
    /\ UNCHANGED <<storage, mainVars, peer>>

\* ExchangeRateAnalyzer() on a file that does not parse: json.load raises
\* JSONDecodeError out of load_cache and __init__; there is no analyzer
NewAnalyzerRaises ==
    /\ RunOver
    /\ ~storage.valid
    /\ file_cache' = EmptyDict
    /\ memory_cache' = EmptyDict
    /\ durable' = [k \in Keys |-> None]
    /\ last_set' = [k \in Keys |-> None]
    /\ pc' = "raised"
    /\ got' = NoGot
    /\ ForgetCall
    /\ UNCHANGED <<storage, mainVars, peer>>

\* the first run starts without a cache file
RunInit == Init /\ storage = NoFile

\* runs of the program one after the other on one cache file: in a run the
\* analyzer is constructed, ranges are fetched and keys are looked up; the
\* fetches write the cache, and a write may fail

RunNext ==
    \/ \E k \in Keys : GetCachedData(k)
    \/ \E s \in Dates, e \in Dates : FetchCall(s, e)
    \/ FetchStep
    \/ \E st \in save_file_cache_raises(storage) : HandleRateRaises(st)
    \/ NewAnalyzer
    \/ NewAnalyzerRaises

RunSpec == RunInit /\ [][RunNext]_vars

\* ------------------------------------------ two analyzers on one cache file
\* Two processes hold an ExchangeRateAnalyzer each, on the same cache_file_path.
\* The file is all they share: it is read by load_cache, at construction, and
\* written by save_file_cache, at the end of set_cached_data; the two layers are
\* each instance's own. No lock is taken and the file is not read again before
\* it is written. The steps are the instances' calls, in any order.

\* a set_cached_data that reads the file again before it adds the key
PeerSetCachedData_reloads(key, value) ==
    /\ LET r == set_cached_data(peer.memory_cache, load_cache(storage), key, value)
       IN /\ peer' = [file_cache |-> r[2], memory_cache |-> r[1]]
          /\ storage' = r[3]
    /\ UNCHANGED <<file_cache, memory_cache, pc, fetchVars, got, histVars,
                   last_set, durable, mainVars>>

\* the other instance: analyzer.set_cached_data(key, value)
PeerSetCachedData(key, value) ==
    /\ LET r == set_cached_data(peer.memory_cache, peer.file_cache, key, value)
       IN /\ peer' = [file_cache |-> r[2], memory_cache |-> r[1]]
          /\ storage' = r[3]
    /\ UNCHANGED <<file_cache, memory_cache, pc, fetchVars, got, histVars,
                   last_set, durable, mainVars>>

\* the other instance: analyzer.get_cached_data(key)
PeerGetCachedData(key) ==
    /\ peer' = [peer EXCEPT !.memory_cache =
                    get_cached_data(peer.memory_cache, peer.file_cache, key)[2]]
    /\ UNCHANGED <<cacheVars, pc, fetchVars, got, histVars, last_set, durable, mainVars>>

\* the other process starts again: ExchangeRateAnalyzer() on the file as it is
PeerNewAnalyzer ==
    /\ storage.valid
    /\ peer' = NewPeer(storage)
    /\ UNCHANGED <<cacheVars, pc, fetchVars, got, histVars, last_set, durable, mainVars>>

\* both instances are constructed before the cache file exists
SharedInit == Init /\ storage = NoFile /\ peer = NewPeer(storage)

SharedNext ==
    \/ \E k \in Keys, v \in Rates : SetCachedData(k, v)
    \/ \E k \in Keys : GetCachedData(k)
    \/ \E k \in Keys, v \in Rates : PeerSetCachedData(k, v)
    \/ \E k \in Keys : PeerGetCachedData(k)
    \/ PeerNewAnalyzer

SharedSpec == SharedInit /\ [][SharedNext]_vars

\* ------------------------------------------------- main(): after the fetch
\* a missing value of a DataFrame column
NaN == None

PipelineDays == 1..MaxDay

\* the rows <<date, rate>> of the days d..MaxDay for which f has a rate, by date
RECURSIVE RowsFrom(_, _)
RowsFrom(f, d) ==
    IF d > MaxDay THEN <<>>
    ELSE (IF f[d] # None THEN <<<<d, f[d]>>>> ELSE <<>>) \o RowsFrom(f, d + 1)

Reverse(rows) == [i \in 1..Len(rows) |-> rows[Len(rows) + 1 - i]]

\* the DataFrames handed to preprocess_data: distinct dates, ascending as
\* fetch_exchange_rates returns them, or descending; the empty one among them
DataFrames ==
    LET asc == {RowsFrom(f, 1) : f \in [PipelineDays -> {None} \cup Rates]}
    IN asc \cup {Reverse(rows) : rows \in asc}

IndexMin(S) == CHOOSE d \in S : \A e \in S : d <= e
IndexMax(S) == CHOOSE d \in S : \A e \in S : d >= e

\* df.set_index('Date'): the column ExchangeRate by date
set_index(rows) ==
    [d \in {rows[i][1] : i \in 1..Len(rows)} |->
        rows[CHOOSE i \in 1..Len(rows) : rows[i][1] = d][2]]

\* df.asfreq('D'): reindexed to every day from the first to the last date
asfreq(col) ==
    [d \in IndexMin(DOMAIN col)..IndexMax(DOMAIN col) |->
        IF d \in DOMAIN col THEN col[d] ELSE NaN]

\* a fill that takes the next value, not the last one
bfill(col) ==
    LET hi == IndexMax(DOMAIN col)
        f[i \in 0..(hi - IndexMin(DOMAIN col))] ==
            IF col[hi - i] # NaN THEN col[hi - i]
            ELSE IF i = 0 THEN NaN ELSE f[i - 1]
    IN [d \in DOMAIN col |-> f[hi - d]]

\* .ffill(): a missing value replaced by the last value before it
ffill(col) ==
    LET lo == IndexMin(DOMAIN col)
        f[d \in DOMAIN col] ==
            IF col[d] # NaN THEN col[d]
            ELSE IF d = lo THEN NaN ELSE f[d - 1]
    IN f

\* df.reset_index(): rows again, in the order of the index
reset_index(col) ==
    LET lo == IndexMin(DOMAIN col)
    IN [i \in 1..Cardinality(DOMAIN col) |-> <<lo + i - 1, col[lo + i - 1]>>]

\* preprocess_data, lines 236-238, on a DataFrame with rows
preprocess_data(rows) == reset_index(ffill(asfreq(set_index(rows))))

\* -------------------------------------------------------- analyze_trends
\* Binary floating point, round to nearest, ties to even. The timestamps and
\* the rates are float64 values (53 significant bits); the model keeps the
\* arithmetic and takes Precision significant bits, with the timestamps whole
\* multiples of a coarse unit, so that they and their sums are exact as whole
\* seconds are in float64, and the rates using the whole significand.
Precision == 12

\* the distance between neighbouring floats at the magnitude v
RECURSIVE Spacing(_)
Spacing(v) == IF v < Pow2(Precision) THEN 1 ELSE 2 * Spacing(v \div 2)

\* the float nearest to p / q, for p >= 0 and q > 0
Round(p, q) ==
    LET u == Spacing(p \div q)
        k == p \div (q * u)
        twice_rest == 2 * (p - k * q * u)
    IN IF twice_rest < q * u \/ (twice_rest = q * u /\ k % 2 = 0)
       THEN k * u
       ELSE (k + 1) * u

\* numpy's sum of fewer than 8 values: one after the other
RECURSIVE add_reduce(_)
add_reduce(v) ==
    IF v = <<>> THEN 0
    ELSE Round(add_reduce(SubSeq(v, 1, Len(v) - 1)) + v[Len(v)], 1)

\* np.mean
mean(v) == Round(add_reduce(v), Len(v))

\* one hour and one day of time, in the unit of the timestamps
Hour == 16
Day == 24 * Hour

\* datetime.timestamp of midnight of day d, a naive datetime: local time. With
\* dst = 0 the offset of local time is the same throughout (UTC, say); else
\* daylight-saving time ends in the course of day dst, which lasts 25 hours.
timestamp(d, dst) ==
    Pow2(Precision - 1) + d * Day + (IF dst # 0 /\ d > dst THEN Hour ELSE 0)

\* the float64 value of the rate r: the rates are the floats next below a power
\* of two, two apart
RateFloat(r) == Pow2(Precision) - 2 * (MaxRate + 1 - r)

RECURSIVE SumSeq(_)
SumSeq(v) == IF v = <<>> THEN 0 ELSE v[1] + SumSeq(Tail(v))

Sign(n) == IF n > 0 THEN 1 ELSE IF n < 0 THEN 0 - 1 ELSE 0

\* the sign of the slope linregress returns: that of ssxym of np.cov(x, y),
\* the sum of (x - mean(x)) * (y - mean(y)); ssxm is positive. The deviations,
\* their products and the sum of the products are exact.
SlopeSign(x, y) ==
    LET xm == mean(x)
        ym == mean(y)
    IN Sign(SumSeq([i \in 1..Len(x) |-> (x[i] - xm) * (y[i] - ym)]))

\* analyze_trends, lines 307-312: [label, sign of the slope]
analyze_trends(rows, dst) ==
    LET sign == SlopeSign([i \in 1..Len(rows) |-> timestamp(rows[i][1], dst)],
                          [i \in 1..Len(rows) |-> RateFloat(rows[i][2])])
    IN [label |-> IF sign > 0 THEN "increasing"
                  ELSE IF sign < 0 THEN "decreasing" ELSE "stable",
        sign |-> sign]

\* the variables of the analyzer and of its fetch
analyzerVars == <<cacheVars, pc, fetchVars, got, histVars, last_set, durable, peer>>

\* main() after fetch_exchange_rates has returned df
MainInit ==
    /\ storage = NoFile
    /\ file_cache = EmptyDict
    /\ memory_cache = EmptyDict
    /\ pc = "done"
    /\ start_date = 1 /\ end_date = 1 /\ current_date = 1
    /\ attempt = 0
    /\ all_rates = <<>>
    /\ response = NoResponse
    /\ ret \in DataFrames
    /\ got = NoGot
    /\ log = <<>>
    /\ outcome = [d \in Dates |-> NoOutcome]
    /\ reached = NotReached
    /\ call_count = 0
    /\ all_ok = TRUE
    /\ prev = NoPrev
    /\ last_set = [k \in Keys |-> None]
    /\ durable = [k \in Keys |-> None]
    /\ stage = "fetched"
    /\ df = ret
    /\ trend = NoTrend
    /\ peer = NoPeer

\* preprocess_data(df), lines 236-239
PreprocessData ==
    /\ stage = "fetched"
    /\ df # <<>>
    /\ df' = preprocess_data(df)
    /\ stage' = "preprocessed"
    /\ UNCHANGED <<analyzerVars, trend>>

\* preprocess_data of the empty DataFrame: its index is not a DatetimeIndex
\* and asfreq raises TypeError, raised again at line 242 and not caught by main
PreprocessDataRaises ==
    /\ stage = "fetched"
    /\ df = <<>>
    /\ stage' = "crashed"
    /\ UNCHANGED <<analyzerVars, df, trend>>

\* analyze_trends(df) called on the preprocessed data
AnalyzeTrends(dst) ==
    /\ stage = "preprocessed"
    /\ Len(df) >= 2
    /\ trend' = analyze_trends(df, dst)
    /\ stage' = "trend"
    /\ UNCHANGED <<analyzerVars, df>>

\* the days on which daylight-saving time may end, 0 for none
DstDays == 0..MaxDay

MainNext ==
    \/ PreprocessData
    \/ PreprocessDataRaises
    \/ \E dst \in DstDays : AnalyzeTrends(dst)

MainSpec == MainInit /\ [][MainNext]_vars

\* ============================================================== properties
\* The history describes the date looked up last in the current call.
LogDate == reached.date

Reqs(l) == {i \in 1..Len(l) : l[i].ev = "req"}

ReqsOfKind(l, kind) == {i \in Reqs(l) : l[i].kind = kind}

\* the fetch of the date looked up last has reached its final outcome
DateEnded == LogDate # 0 /\ outcome[LogDate].kind # "none"

HasPoint(rows, d) == \E i \in 1..Len(rows) : rows[i][1] = d

\* the rate the cache held for the date when the fetch reached it
CachedAtReach == IF reached.mem # None THEN reached.mem ELSE reached.file

\* C1: a date whose key is in the memory layer or in the file layer when the
\* fetch reaches it gets no network request, and the point appended for it
\* carries the cached rate; a row of the returned series for that date carries
\* that rate too.
C1_NoRedundantNetworkCalls ==
    (LogDate # 0 /\ CachedAtReach # None) =>
        /\ Reqs(log) = {}
        /\ pc \notin {"try", "resp"}
        /\ \E i \in 1..Len(all_rates) : all_rates[i] = <<LogDate, CachedAtReach>>
        /\ \A i \in 1..Len(all_rates) :
              all_rates[i][1] = LogDate => all_rates[i][2] = CachedAtReach
        /\ \A i \in 1..Len(ret) : ret[i][1] = LogDate => ret[i][2] = CachedAtReach

\* a fetch has returned whose last date was held by the file layer only
C1_Witness ==
    /\ pc = "done"
    /\ LogDate # 0
    /\ reached.mem = None /\ reached.file # None
    /\ call_count = 0
    /\ HasPoint(ret, LogDate)

\* C2: a date all of whose requests failed at transport level gets at most 3
\* requests, and exactly 3 once its fetch has ended, as a gap; a wait follows
\* the 1st and the 2nd failure only, the second wait longer than the first.
C2_RetryBound ==
    (LogDate # 0 /\ Reqs(log) # {} /\ ReqsOfKind(log, "transport") = Reqs(log)) =>
        /\ Len(log) <= 2 * max_attempts - 1
        /\ \A i \in 1..Len(log) : (log[i].ev = "req") <=> (i % 2 = 1)
        /\ \A i \in 1..Len(log) : (log[i].ev = "sleep") <=> (i % 2 = 0)
        /\ Len(log) >= 4 => log[4].secs > log[2].secs
        /\ Len(log) >= 2 => log[2].secs > 0
        /\ DateEnded =>
              /\ Cardinality(Reqs(log)) = 3
              /\ log[Len(log)].ev = "req"
              /\ outcome[LogDate].kind = "exhausted"
              /\ ~HasPoint(all_rates, LogDate)

\* a date has been given up after three transport failures
C2_Witness ==
    /\ DateEnded
    /\ outcome[LogDate].kind = "exhausted"
    /\ ReqsOfKind(log, "transport") = Reqs(log)
    /\ Cardinality(Reqs(log)) = 3

\* C3: nothing follows a response with success false for that date: no
\* request, no wait; it is the only request when it is the first response, and
\* the date yields no point.
C3_ErrorFlagNotRetried ==
    \A i \in ReqsOfKind(log, "flag") :
        /\ i = Len(log)
        /\ pc # "try"
        /\ pc = "resp" => Kind(response) = "flag"
        /\ pc # "resp" => /\ DateEnded
                          /\ outcome[LogDate].kind = "flag"
                          /\ ~HasPoint(all_rates, LogDate)
        /\ i = 1 => Cardinality(Reqs(log)) = 1

\* the first response for a date carried the error flag and the fetch moved on
C3_Witness ==
    /\ Len(log) = 1
    /\ log[1].kind = "flag"
    /\ DateEnded
    /\ current_date = LogDate + 1

\* C4: a response with a hard-failure HTTP status (raise_for_status raises
\* HTTPError) is never retried: no request follows it for that date, and it is
\* the only request when it is the first response.
C4_HardHttpErrorSingleAttempt ==
    \A i \in ReqsOfKind(log, "http_error") :
        /\ \A j \in Reqs(log) : j <= i
        /\ i = 1 => Cardinality(Reqs(log)) = 1

\* C5: after a success response without the rate no further request is issued
\* for that date, and the date yields no point.
C5_MissingFieldNotRetried ==
    \A i \in ReqsOfKind(log, "norate") :
        /\ \A j \in Reqs(log) : j <= i
        /\ ~HasPoint(all_rates, LogDate)

Fetched(d) == outcome[d].kind \in {"hit", "fetched"}

Rows(rows) == {rows[i] : i \in 1..Len(rows)}

\* C6: when the fetch has returned, every day of the range has been looked up
\* or requested, and every rate obtained is in the returned series.
C6_DayFailureDoesNotAbortRange ==
    pc = "done" =>
        /\ \A d \in start_date..end_date : outcome[d].kind # "none"
        /\ \A d \in start_date..end_date :
              Fetched(d) => <<d, outcome[d].rate>> \in Rows(ret)

\* C7: a fetch that has been called returns.
C7_FetchReturns == (pc \in {"loop", "try", "resp"}) ~> (pc = "done")

StrictlyIncreasing(rows) ==
    \A i, j \in 1..Len(rows) : i < j => rows[i][1] < rows[j][1]

\* C8: the returned series is strictly increasing by date and holds exactly the
\* days that ended in a cache hit or a successful fetch, each with its rate.
C8_ReturnedSeries ==
    pc = "done" =>
        /\ StrictlyIncreasing(ret)
        /\ Rows(ret) = {<<d, outcome[d].rate>> : d \in {x \in start_date..end_date : Fetched(x)}}

RangeDays == IF start_date <= end_date THEN end_date - start_date + 1 ELSE 0

\* C9: a fetch of the same range right after a fetch that obtained every day
\* issues no request and returns the same series; a fetch that found none of
\* its days cached and had every request answered with the rate issued exactly
\* one request per day.
C9_RefetchIdempotent ==
    pc = "done" =>
        /\ prev.valid => (call_count = 0 /\ ret = prev.ret)
        /\ (all_ok /\ \A d \in start_date..end_date : outcome[d].kind = "fetched")
              => call_count = RangeDays

\* a two-day range has been fetched from the network and fetched again
C9_Witness ==
    /\ pc = "done"
    /\ prev.valid
    /\ Len(prev.ret) = 2
    /\ ret = prev.ret
    /\ call_count = 0

\* C10: get_cached_data(k) returns the value of the latest set_cached_data(k, _)
\* of this analyzer, whatever was called in between.
C10_ReadYourWrite ==
    (got.called /\ last_set[got.key] # None) => got.value = last_set[got.key]

\* a key has been set and read back while another key has been set too
C10_Witness ==
    /\ got.called
    /\ last_set[got.key] # None
    /\ got.value = last_set[got.key]
    /\ \E k \in Keys : k # got.key /\ last_set[k] # None

\* C11: while the analyzer is in use (no write has raised), the cache file
\* parses and holds exactly the file layer, every key with its current value,
\* an absent file counting as the empty mapping; every value set through
\* set_cached_data is in the file.
C11_WriteThroughPersistence ==
    pc # "raised" =>
        /\ storage.valid
        /\ load_cache(storage) = file_cache
        /\ storage.exists => storage.text = json_dump(file_cache)
        /\ ~storage.exists => file_cache = EmptyDict
        /\ \A k \in Keys :
              last_set[k] # None => (storage.exists /\ <<k, last_set[k]>> \in storage.text)

\* a key has been set on this analyzer while the file held another key already
C11_Witness ==
    /\ pc = "idle"
    /\ \E k \in Keys :
          /\ last_set[k] # None
          /\ <<k, last_set[k]>> \in storage.text
          /\ \E k2 \in Keys : k2 # k /\ last_set[k2] = None /\ k2 \in DOMAIN file_cache
    /\ storage.text = json_dump(file_cache)

\* C12: a write of the cache file that fails while a fetched rate is stored
\* ends fetch_exchange_rates with the error: nothing follows it in the call (no
\* request, no wait), the date gets no outcome (no gap), no later date is
\* looked up and nothing is returned.
C12_PersistenceFailureIsFatal ==
    \A i \in 1..Len(log) :
        log[i].ev = "raise" =>
            /\ i = Len(log)
            /\ pc = "raised"
            /\ current_date = LogDate
            /\ outcome[LogDate].kind = "none"
            /\ \A d \in Dates : d > LogDate => outcome[d].kind = "none"
            /\ ret = <<>>

\* the write failed for a date that a transport failure had delayed, with a
\* later date of the range still to come
C12_Witness ==
    /\ pc = "raised"
    /\ Len(log) >= 3
    /\ log[1].kind = "transport"
    /\ log[Len(log)].ev = "raise"
    /\ current_date < end_date

\* C18: a key whose latest returned set_cached_data(k, v) was made on an
\* earlier analyzer and that this analyzer has not set: get_cached_data(k)
\* returns v, and a fetch reaching its date issues no request and takes v.
C18_DurableAcrossRestarts ==
    /\ (got.called /\ last_set[got.key] = None /\ durable[got.key] # None)
          => got.value = durable[got.key]
    /\ (LogDate # 0 /\ last_set[CacheKey(LogDate)] = None
                    /\ durable[CacheKey(LogDate)] # None) =>
          /\ Reqs(log) = {}
          /\ pc \notin {"try", "resp"}
          /\ outcome[LogDate] = [kind |-> "hit", rate |-> durable[CacheKey(LogDate)]]
          /\ <<LogDate, durable[CacheKey(LogDate)]>> \in Rows(all_rates)

\* a new analyzer has fetched, without a request, a range of two days whose
\* rates an earlier analyzer had set
C18_Witness ==
    /\ pc = "done"
    /\ start_date < end_date
    /\ call_count = 0
    /\ \A d \in start_date..end_date :
          /\ last_set[CacheKey(d)] = None
          /\ durable[CacheKey(d)] # None
          /\ <<d, durable[CacheKey(d)]>> \in Rows(ret)

\* C19: every key of the memory layer is in the file layer with the same
\* value.
C19_LayerConsistency ==
    \A k \in DOMAIN memory_cache :
        k \in DOMAIN file_cache /\ file_cache[k] = memory_cache[k]

\* the memory layer holds a key set on this analyzer and a key it took from the
\* file layer on a get_cached_data
C19_Witness ==
    /\ got.called
    /\ got.value # None
    /\ last_set[got.key] = None
    /\ got.key \in DOMAIN memory_cache
    /\ \E k \in DOMAIN memory_cache : k # got.key /\ last_set[k] = memory_cache[k]

\* C13: a fetch in which no day yields a rate returns the empty series and
\* raises nothing: an error leaves fetch_exchange_rates only after a rate was
\* obtained; with start_date > end_date the call returns at once, without a
\* request and with the cache file and both layers as they were.
C13_EmptySeriesIsNotAnError ==
    /\ [](/\ (pc = "done" /\ ~\E d \in start_date..end_date : Fetched(d)) => ret = <<>>
          /\ (pc = "done" /\ start_date > end_date) => (call_count = 0 /\ LogDate = 0)
          /\ (pc = "raised" /\ LogDate # 0) => all_rates # <<>>)
    /\ [][(pc = "loop" /\ start_date > end_date) =>
             (pc' = "done" /\ ret' = <<>> /\ call_count' = 0 /\ UNCHANGED cacheVars)]_vars

\* a fetch of two days has returned, one day given up after three failures and
\* one day refused with the error flag
C13_Witness ==
    /\ pc = "done"
    /\ start_date < end_date
    /\ \E d1, d2 \in start_date..end_date :
          outcome[d1].kind = "exhausted" /\ outcome[d2].kind = "flag"
    /\ ~\E d \in start_date..end_date : Fetched(d)
    /\ ret = <<>>

Sleeps(l) == {i \in 1..Len(l) : l[i].ev = "sleep"}

\* C17: the wait after the failed attempt with index i (0 for the first
\* attempt of the date) is backoff_time * 2^i seconds.
C17_BackoffSchedule ==
    \A i \in Sleeps(log) :
        log[i].secs = backoff_time * Pow2(Cardinality({j \in Sleeps(log) : j < i}))

InCall == pc \in {"loop", "try", "resp"}

\* C20: a request is issued only for the date the loop is at, a date of the
\* range that has no outcome yet while every earlier date of the range has its
\* final outcome and no later date has been touched; the loop never goes back
\* to an earlier date, and leaves a date only with that date's final outcome.
C20_SequentialFetching ==
    /\ [](/\ pc \in {"try", "resp"} =>
                /\ current_date \in start_date..end_date
                /\ LogDate = current_date
                /\ outcome[current_date].kind = "none"
          /\ (InCall \/ pc = "done") =>
                /\ \A d \in start_date..end_date :
                      d < current_date => outcome[d].kind # "none"
                /\ \A d \in Dates :
                      (d > current_date \/ d \notin start_date..end_date)
                          => outcome[d].kind = "none")
    /\ [][(InCall /\ pc' # "idle") =>
             /\ current_date' \in {current_date, current_date + 1}
             /\ current_date' # current_date => outcome'[current_date].kind # "none"
             /\ call_count' # call_count => (pc = "try" /\ current_date' = current_date)
             /\ \A d \in Dates : outcome[d].kind # "none" => outcome'[d] = outcome[d]]_vars

\* the second day of a range is being requested after the first day took two
\* requests
C20_Witness ==
    /\ pc = "resp"
    /\ current_date = start_date + 1
    /\ outcome[start_date].kind = "fetched"
    /\ call_count >= 3

InputDays == {ret[i][1] : i \in 1..Len(ret)}

InputRate(d) == ret[CHOOSE i \in 1..Len(ret) : ret[i][1] = d][2]

\* C14: preprocess_data of a non-empty series with distinct dates returns one
\* row per day from the first to the last input date, in order, none skipped;
\* the rate of a day is that of the latest input day not after it: its own
\* when it had one, else that of the nearest input day before it.
C14_GapFreeForwardFill ==
    stage \in {"preprocessed", "trend"} =>
        /\ Len(df) = IndexMax(InputDays) - IndexMin(InputDays) + 1
        /\ \A i \in 1..Len(df) : df[i][1] = IndexMin(InputDays) + i - 1
        /\ \A i \in 1..Len(df) :
              df[i][2] = InputRate(IndexMax({d \in InputDays : d <= df[i][1]}))

\* a series given latest date first, with two days running missing between
\* days of different rates, has been preprocessed
C14_Witness ==
    /\ stage = "preprocessed"
    /\ Len(ret) >= 3
    /\ ret[1][1] > ret[2][1]
    /\ \E i \in 1..(Len(df) - 3) :
          /\ df[i][1] \in InputDays
          /\ df[i + 1][1] \notin InputDays
          /\ df[i + 2][1] \notin InputDays
          /\ df[i + 3][1] \in InputDays
          /\ df[i + 2][2] = df[i][2]
          /\ df[i + 3][2] # df[i][2]

\* C15: a run whose fetch returned the empty series does not crash in a later
\* stage.
C15_NoDataIsNotACrash ==
    (stage # "none" /\ ret = <<>>) => stage # "crashed"

StrictlyRising(rows) == \A i \in 1..(Len(rows) - 1) : rows[i][2] < rows[i + 1][2]

StrictlyFalling(rows) == \A i \in 1..(Len(rows) - 1) : rows[i][2] > rows[i + 1][2]

ConstantRate(rows) == \A i \in 1..Len(rows) : rows[i][2] = rows[1][2]

\* C16: analyze_trends on at least 2 days returns "increasing" with a positive
\* slope for strictly increasing rates, "decreasing" with a negative slope for
\* strictly decreasing rates and "stable" with slope 0 for a constant rate.
C16_TrendSign ==
    stage = "trend" =>
        /\ StrictlyRising(df) => (trend.label = "increasing" /\ trend.sign > 0)
        /\ StrictlyFalling(df) => (trend.label = "decreasing" /\ trend.sign < 0)
        /\ ConstantRate(df) => (trend.label = "stable" /\ trend.sign = 0)

\* the three places a cache entry lives in: memory layer, file layer, file
InNoLayer(k) ==
    /\ k \notin DOMAIN memory_cache
    /\ k \notin DOMAIN file_cache
    /\ \A m \in storage.text : m[1] # k

\* C21: during a fetch the file layer and the file change only when a response
\* carries the rate, and then the date's key is set to that rate in both
\* layers and the file is rewritten; the memory layer changes besides only by
\* taking over a value of the file layer. A date given up (retries exhausted or
\* error flag) is in no layer and not in the file for the rest of the call,
\* and a fetch of this date right after finds it uncached and requests it.
C21_NoNegativeCaching ==
    /\ [](/\ \A d \in Dates :
                (InCall \/ pc = "done") /\ outcome[d].kind \in {"exhausted", "flag"}
                    => InNoLayer(CacheKey(d))
          /\ prev.gave_up =>
                /\ pc \in {"loop", "try"}
                /\ current_date = start_date /\ start_date = end_date
                /\ InNoLayer(CacheKey(current_date))
                /\ call_count = 0)
    /\ [][InCall =>
             /\ prev.gave_up =>
                   \/ pc = "loop" /\ pc' = "try"
                   \/ pc = "try" /\ pc' = "resp" /\ call_count' = 1
             /\ (file_cache' # file_cache \/ storage' # storage) =>
                   /\ pc = "resp"
                   /\ Kind(response) = "rate"
                   /\ file_cache' = DictSet(file_cache, CacheKey(current_date), response.rate)
                   /\ memory_cache' = DictSet(memory_cache, CacheKey(current_date), response.rate)
                   /\ storage' = save_file_cache(file_cache')
             /\ memory_cache' # memory_cache =>
                   memory_cache' = DictSet(memory_cache, CacheKey(current_date),
                                           file_cache'[CacheKey(current_date)])
             /\ (pc = "try" /\ pc' = "loop") => UNCHANGED cacheVars
             /\ (pc = "resp" /\ Kind(response) # "rate") => UNCHANGED cacheVars]_vars

\* a fetch gave up a date, and the next fetch, for that date, has found it
\* uncached and is about to request it
C21_Witness ==
    /\ prev.gave_up
    /\ pc = "try"
    /\ attempt = 0
    /\ LogDate = current_date
    /\ CachedAtReach = None

\* the keys of the stored file
StoredKeys == {m[1] : m \in storage.text}

\* one instance's set: its file layer gets the key and the file is rewritten
\* with that whole layer
SetFrom(file, file2, st2) ==
    /\ \E k \in Keys, v \in Rates : file2 = DictSet(file, k, v)
    /\ st2 = save_file_cache(file2)

\* C22: when two analyzer instances share one cache file, every set rewrites
\* the whole file from the setting instance's own file layer, which is loaded
\* from the file at construction only and otherwise changed by that instance's
\* own sets only; so the stored file is always the file layer of one of the
\* two instances, and it holds a key only if the instance that wrote last
\* holds it.
C22_LostUpdate ==
    /\ [](storage.exists =>
            storage.text \in {json_dump(file_cache), json_dump(peer.file_cache)})
    /\ [][/\ storage' # storage =>
                \/ SetFrom(file_cache, file_cache', storage') /\ peer' = peer
                \/ /\ SetFrom(peer.file_cache, peer'.file_cache, storage')
                   /\ file_cache' = file_cache
          /\ file_cache' # file_cache => SetFrom(file_cache, file_cache', storage')
          /\ peer'.file_cache # peer.file_cache =>
                \/ SetFrom(peer.file_cache, peer'.file_cache, storage')
                \/ peer' = NewPeer(storage) /\ storage' = storage]_vars

\* a key set and persisted by the first instance is not in the stored file,
\* which the other instance has rewritten since from its own file layer
C22_Witness ==
    \E k \in Keys :
        /\ last_set[k] # None
        /\ file_cache[k] = last_set[k]
        /\ storage = save_file_cache(peer.file_cache)
        /\ k \notin StoredKeys
        /\ StoredKeys # {}

====
